---- MODULE Spec2Model ----
(***************************************************************************)
(* Load-cell calibration: the numeric core (parse_calibration_curve.py)    *)
(* and the acquisition script (loadcell_calibration.py).                   *)
(*                                                                         *)
(* Numbers.  The code computes in IEEE doubles; the model computes the     *)
(* same quantities exactly.  An interpolated series is kept as integers    *)
(* over a common denominator ([den, vals], sample k is vals[k]/den), a     *)
(* slope as a reduced fraction, a residual as num/den in units of          *)
(* (1/unit)^2.  Quantities that exceed 31 bits are kept as little-endian   *)
(* base-10000 digit sequences ("Big").  Sequences are 1-based here and     *)
(* 0-based in the code; start, end and slice bounds keep the code's        *)
(* 0-based values.                                                         *)
(***************************************************************************)
EXTENDS Integers, Sequences, FiniteSets, TLC

\* ------------------------------------------------------------------ bounds
\* longest raw series handed to parse_calibration_curve
MaxLen == 4
\* raw REF / DUT readings the series are drawn from
RefVals == {0, 1, 2}
DutVals == {0, 1}
\* REF scale factors tried (kg per V/V); 100000 is the value of the module docstring
ScaleRefs == {1, 100000}

\* ---------------------------------------------------------- exact arithmetic
Abs(n) == IF n < 0 THEN -n ELSE n
Min2(a, b) == IF a <= b THEN a ELSE b

RECURSIVE GCD(_, _)
GCD(a, b) == IF b = 0 THEN Abs(a) ELSE GCD(b, a % b)

RECURSIVE SumSeq(_)
SumSeq(s) == IF s = <<>> THEN 0 ELSE Head(s) + SumSeq(Tail(s))

RECURSIVE DotSeq(_, _)
DotSeq(s, t) == IF s = <<>> THEN 0 ELSE Head(s) * Head(t) + DotSeq(Tail(s), Tail(t))

RECURSIVE MaxSeq(_)
MaxSeq(s) == IF Len(s) = 1 THEN s[1]
             ELSE LET r == MaxSeq(Tail(s)) IN IF Head(s) >= r THEN Head(s) ELSE r

RECURSIVE MinSeq(_)
MinSeq(s) == IF Len(s) = 1 THEN s[1]
             ELSE LET r == MinSeq(Tail(s)) IN IF Head(s) <= r THEN Head(s) ELSE r

\* reduced fraction num/den, den > 0
Rat(n, d) == LET g == GCD(n, d)
                 s == IF d < 0 THEN -1 ELSE 1
             IN  [num |-> s * (n \div g), den |-> s * (d \div g)]

\* natural numbers beyond 31 bits: little-endian base-10000 digits, no leading zero
RECURSIVE BigOf(_)
BigOf(n) == IF n = 0 THEN <<>> ELSE <<n % 10000>> \o BigOf(n \div 10000)

RECURSIVE BigAddC(_, _, _)
BigAddC(a, b, c) ==
  IF a = <<>> /\ b = <<>> THEN (IF c = 0 THEN <<>> ELSE <<c>>)
  ELSE LET da == IF a = <<>> THEN 0 ELSE Head(a)
           db == IF b = <<>> THEN 0 ELSE Head(b)
           ta == IF a = <<>> THEN <<>> ELSE Tail(a)
           tb == IF b = <<>> THEN <<>> ELSE Tail(b)
           s  == da + db + c
       IN  <<s % 10000>> \o BigAddC(ta, tb, s \div 10000)

BigAdd(a, b) == BigAddC(a, b, 0)

RECURSIVE BigMulDigit(_, _, _)
BigMulDigit(a, d, c) ==
  IF a = <<>> THEN (IF c = 0 THEN <<>> ELSE <<c>>)
  ELSE LET p == Head(a) * d + c
       IN  <<p % 10000>> \o BigMulDigit(Tail(a), d, p \div 10000)

BigShift(a) == IF a = <<>> THEN <<>> ELSE <<0>> \o a

RECURSIVE BigMul(_, _)
BigMul(a, b) ==
  IF a = <<>> \/ b = <<>> THEN <<>>
  ELSE BigAdd(IF Head(b) = 0 THEN <<>> ELSE BigMulDigit(a, Head(b), 0),
              BigShift(BigMul(a, Tail(b))))

RECURSIVE BigTrim(_)
BigTrim(a) == IF a = <<>> THEN <<>>
              ELSE IF a[Len(a)] = 0 THEN BigTrim(SubSeq(a, 1, Len(a) - 1)) ELSE a

\* a - b for a >= b
RECURSIVE BigSubB(_, _, _)
BigSubB(a, b, w) ==
  IF a = <<>> THEN <<>>
  ELSE LET db == IF b = <<>> THEN 0 ELSE Head(b)
           tb == IF b = <<>> THEN <<>> ELSE Tail(b)
           d  == Head(a) - db - w
       IN  IF d < 0 THEN <<d + 10000>> \o BigSubB(Tail(a), tb, 1)
           ELSE <<d>> \o BigSubB(Tail(a), tb, 0)

BigSub(a, b) == BigTrim(BigSubB(a, b, 0))

RECURSIVE BigLessFrom(_, _, _)
BigLessFrom(a, b, i) ==
  IF i = 0 THEN FALSE
  ELSE IF a[i] # b[i] THEN a[i] < b[i]
  ELSE BigLessFrom(a, b, i - 1)

BigLess(a, b) == IF Len(a) # Len(b) THEN Len(a) < Len(b) ELSE BigLessFrom(a, b, Len(a))

\* ---------------------------------------------------------- numpy / Python
\* a[start:stop] for 0 <= start, 0 <= stop (Python clamps stop to the length)
PySlice(a, start, stop) == SubSeq(a, start + 1, Min2(stop, Len(a)))

\* len(np.arange(start, stop, step)) for step > 0: ceil((stop - start) / step)
arange_len(start, stop, step) ==
  IF stop <= start THEN 0 ELSE ((stop - start) + step - 1) \div step

\* ------------------------------------------------ parse_calibration_curve.py
\* an exception leaving parse_calibration_curve: its Python type and the stage raising it
Raised(exc, at) == [exc |-> exc, at |-> at]
NoError == Raised("", "")

\* scipy's CubicSpline(xp, vals) with the default bc_type="not-a-knot", on the
\* integer abscissas 0 .. n-1: the value at the midpoint k - 1/2 of segment k is
\* the weighted sum  (SUM_j SplineW(n)[k][j] * vals[j]) / SplineDen(n).
\* n = 2 is the straight line, n = 3 the parabola through the three points,
\* n >= 4 the spline whose first two and last two segments are one cubic each.
SplineDen(n) ==
  CASE n = 2 -> 2 [] n = 3 -> 8 [] n = 4 -> 16 [] n = 5 -> 64 [] n = 6 -> 240

SplineW(n) ==
  CASE n = 2 -> << <<1, 1>> >>
    [] n = 3 -> << <<3, 6, -1>>, <<-1, 6, 3>> >>
    [] n = 4 -> << <<5, 15, -5, 1>>, <<-1, 9, 9, -1>>, <<1, -5, 15, 5>> >>
    [] n = 5 -> << <<19, 64, -26, 8, -1>>, <<-3, 32, 42, -8, 1>>,
                   <<1, -8, 42, 32, -3>>, <<-1, 8, -26, 64, 19>> >>
    [] n = 6 -> << <<71, 242, -103, 37, -8, 1>>, <<-11, 118, 163, -37, 8, -1>>,
                   <<3, -24, 141, 141, -24, 3>>, <<-1, 8, -37, 163, 118, -11>>,
                   <<1, -8, 37, -103, 242, 71>> >>

\* vals_spline(x) at the half-step index h (x = h/2), times SplineDen(n)
vals_spline(vals, h) ==
  IF h % 2 = 0 THEN SplineDen(Len(vals)) * vals[(h \div 2) + 1]
  ELSE DotSeq(SplineW(Len(vals))[(h + 1) \div 2], vals)

\* the stop of x = np.arange(0, len(vals) - 0.5, 0.5), in half steps
x_stop_mut(n) == 2 * n - 2
x_stop(n) == 2 * n - 1

interpolate_2x(vals) ==
  LET n    == Len(vals)
      xp   == arange_len(0, n, 1)
      xlen == arange_len(0, x_stop(n), 1)
  IN  IF xp * 2 - 1 # xlen
        THEN [den |-> 1, vals |-> <<>>, error |-> Raised("AssertionError", "interpolate_2x")]
      ELSE IF n < 2
        THEN [den |-> 1, vals |-> <<>>, error |-> Raised("ValueError", "interpolate_2x")]
      ELSE [den |-> SplineDen(n),
            vals |-> [k \in 1 .. xlen |-> vals_spline(vals, k - 1)],
            error |-> NoError]

\* np.polynomial.polynomial.Polynomial.fit(x, y, 1, full=True) for x = xs/dx, y = ys/dy.
\* slope is the degree-1 coefficient in the data's own coordinates (what convert()
\* yields); resid is lstsq's residual array: empty when the rank is below 2 or there
\* are no more points than coefficients, else one value num/den in units of (1/unit)^2.
PolynomialFit(xs, dx, ys, dy) ==
  LET n == Len(xs)
      A == n * DotSeq(xs, xs) - SumSeq(xs) * SumSeq(xs)
      B == n * DotSeq(xs, ys) - SumSeq(xs) * SumSeq(ys)
      C == n * DotSeq(ys, ys) - SumSeq(ys) * SumSeq(ys)
      rank == IF A = 0 THEN 1 ELSE 2
  IN  IF n = 0
        THEN [error |-> Raised("ValueError", "Polynomial.fit"), rank |-> 0,
              slope |-> Rat(0, 1), resid |-> <<>>, npoints |-> 0]
      ELSE [error |-> NoError, rank |-> rank,
            slope |-> IF A = 0 THEN Rat(0, 1) ELSE Rat(B * dx, A * dy),
            resid |-> IF rank < 2 \/ n <= 2 THEN <<>>
                      ELSE << [num  |-> BigSub(BigMul(BigOf(A), BigOf(C)),
                                               BigMul(BigOf(Abs(B)), BigOf(Abs(B)))),
                               den  |-> n * A,
                               unit |-> dy] >>,
            npoints |-> n]

\* two residuals of fits against the same REF series (same unit): r1 < r2
ResidLess(r1, r2) == BigLess(BigMul(r1.num, BigOf(r2.den)), BigMul(r2.num, BigOf(r1.den)))

\* line_fit_residual(x, y): resid[0] of the degree-1 fit
line_fit_residual(x, y) ==
  IF Len(x.vals) # Len(y.vals)
    THEN [error |-> Raised("AssertionError", "line_fit_residual"), resid |-> <<>>]
  ELSE LET f == PolynomialFit(x.vals, x.den, y.vals, y.den)
       IN  IF f.error # NoError THEN [error |-> Raised(f.error.exc, "line_fit_residual"), resid |-> <<>>]
           ELSE IF f.resid = <<>>
             THEN [error |-> Raised("IndexError", "line_fit_residual"), resid |-> <<>>]
           ELSE [error |-> NoError, resid |-> f.resid]

min_len_mut(interp_r, interp_d) == Min2(Len(interp_r.vals), Len(interp_d.vals)) - 1
min_len(interp_r, interp_d) == Min2(Len(interp_r.vals), Len(interp_d.vals))

slice_shift_back(m) == [start |-> 1, stop |-> m]
slice_no_shift(m) == [start |-> 0, stop |-> m - 1]

Cut(series, sl) == [den |-> series.den, vals |-> PySlice(series.vals, sl.start, sl.stop)]

\* the two tuples handed to min(): (DUT first, REF first)
Candidates(interp_r, interp_d) ==
  LET m == min_len(interp_r, interp_d)
  IN  << [dut |-> Cut(interp_d, slice_shift_back(m)), ref |-> Cut(interp_r, slice_no_shift(m))],
         [dut |-> Cut(interp_d, slice_no_shift(m)), ref |-> Cut(interp_r, slice_shift_back(m))] >>

\* Python's min(a, b, key=...) over two items with keys k1, k2: the first item
\* unless the second one's key is strictly smaller
py_min_mut(k1, k2) == IF ResidLess(k1, k2) THEN 1 ELSE 2
py_min(k1, k2) == IF ResidLess(k2, k1) THEN 2 ELSE 1

\* min_load_fraction = 0.1
MinLoadFractionNum == 1
MinLoadFractionDen == 10

\* cut_ref > min_load_fraction * ref_val_delta + ref_val_min, sample by sample
above_mut(v, ref_val_min, ref_val_delta) ==
  MinLoadFractionDen * v >= MinLoadFractionNum * ref_val_delta + MinLoadFractionDen * ref_val_min
above(v, ref_val_min, ref_val_delta) ==
  MinLoadFractionDen * v > MinLoadFractionNum * ref_val_delta + MinLoadFractionDen * ref_val_min

\* np.where(cond)[0]: the 0-based indexes where the condition holds, ascending
RECURSIVE np_where(_, _, _, _)
np_where(vals, i, ref_val_min, ref_val_delta) ==
  IF i > Len(vals) THEN <<>>
  ELSE (IF above(vals[i], ref_val_min, ref_val_delta) THEN <<i - 1>> ELSE <<>>)
       \o np_where(vals, i + 1, ref_val_min, ref_val_delta)

\* slice_to_fit = slice(start, end)
slice_to_fit(s, e) == [start |-> s, stop |-> e]

\* scale_dut = fit_coef[1] * scale_ref, as sign and num/den
scale_dut_mut(slope, scale) ==
  [num |-> BigOf(Abs(slope.num)), den |-> slope.den, neg |-> slope.num < 0]
scale_dut_of(slope, scale) ==
  LET g == GCD(slope.den, scale)
  IN  [num |-> BigMul(BigOf(Abs(slope.num)), BigOf(scale \div g)),
       den |-> slope.den \div g,
       neg |-> slope.num < 0]

\* the stages of parse_calibration_curve as functions of what they read
NoSeries == [den |-> 1, vals |-> <<>>]
NoFit == [error |-> NoError, xs |-> <<>>, ys |-> <<>>, rank |-> 0, slope |-> Rat(0, 1),
          resid |-> <<>>, npoints |-> 0, coef_len |-> 0]
NoResult == [scale_dut |-> [num |-> <<>>, den |-> 1, neg |-> FALSE], residual |-> <<>>]

\* lines 74-75: REF is interpolated first
InterpolateBoth(vr, vd) ==
  LET r == interpolate_2x(vr)
      d == interpolate_2x(vd)
  IN  IF r.error # NoError THEN [error |-> r.error, dut |-> NoSeries, ref |-> NoSeries]
      ELSE IF d.error # NoError THEN [error |-> d.error, dut |-> NoSeries, ref |-> NoSeries]
      ELSE [error |-> NoError, dut |-> [den |-> d.den, vals |-> d.vals],
            ref |-> [den |-> r.den, vals |-> r.vals]]

\* lines 79-87: min() evaluates the key of the first tuple, then of the second
AlignPhase(interp_r, interp_d) ==
  LET c  == Candidates(interp_r, interp_d)
      k1 == line_fit_residual(c[1].dut, c[1].ref)
      k2 == line_fit_residual(c[2].dut, c[2].ref)
      failed(e) == [error |-> e, candidates |-> <<>>, resids |-> <<>>, chosen |-> 0,
                    cut_dut |-> NoSeries, cut_ref |-> NoSeries]
  IN  IF k1.error # NoError THEN failed(k1.error)
      ELSE IF k2.error # NoError THEN failed(k2.error)
      ELSE LET w == py_min(k1.resid[1], k2.resid[1])
           IN  [error |-> NoError, candidates |-> c,
                resids |-> <<k1.resid[1], k2.resid[1]>>, chosen |-> w,
                cut_dut |-> c[w].dut, cut_ref |-> c[w].ref]

\* lines 106-116: start, end = np.where(...)[0][[0, -1]]
LoadWindow(cr) ==
  LET ref_val_max   == MaxSeq(cr.vals)
      ref_val_min   == MinSeq(cr.vals)
      ref_val_delta == ref_val_max - ref_val_min
      idx == np_where(cr.vals, 1, ref_val_min, ref_val_delta)
  IN  IF idx = <<>>
        THEN [start |-> -1, error |-> Raised("IndexError", "select_window"), end |-> -1]
      ELSE [start |-> idx[1], error |-> NoError, end |-> idx[Len(idx)]]

\* lines 118-128.  fit_coef = fit_line.convert().coef has two entries unless the
\* computed slope is exactly 0.0, which convert() trims away; whether a slope that
\* is 0 in exact arithmetic comes out as exactly 0.0 depends on rounding, so either
\* length may be seen then.  The set of fits the build can produce.
FinalFits(cd, cr, s, e) ==
  LET sl == slice_to_fit(s, e)
      x  == Cut(cd, sl)
      y  == Cut(cr, sl)
      f  == PolynomialFit(x.vals, x.den, y.vals, y.den)
  IN  IF f.error # NoError THEN {[NoFit EXCEPT !.error = f.error]}
      ELSE {[error |-> NoError, xs |-> x.vals, ys |-> y.vals, rank |-> f.rank, slope |-> f.slope,
             resid |-> f.resid, npoints |-> f.npoints, coef_len |-> n] :
               n \in (IF f.slope.num = 0 THEN {1, 2} ELSE {2})}

\* lines 130-152: fit_coef[1] (line 145) and resid[0] (line 150) raise IndexError
\* on an array that is too short
Outcome(f, scale) ==
  IF f.coef_len < 2 THEN [error |-> Raised("IndexError", "fit_coef"), result |-> NoResult]
  ELSE IF f.resid = <<>> THEN [error |-> Raised("IndexError", "resid"), result |-> NoResult]
  ELSE [error |-> NoError,
        result |-> [scale_dut |-> scale_dut_of(f.slope, scale), residual |-> f.resid]]

\* the whole function: the set of ways a call can end
parse_calibration_curve(vr, vd, scale) ==
  LET i == InterpolateBoth(vr, vd)
      a == AlignPhase(i.ref, i.dut)
      w == LoadWindow(a.cut_ref)
  IN  IF i.error # NoError THEN {[error |-> i.error, result |-> NoResult]}
      ELSE IF a.error # NoError THEN {[error |-> a.error, result |-> NoResult]}
      ELSE IF w.error # NoError THEN {[error |-> w.error, result |-> NoResult]}
      ELSE {IF f.error # NoError THEN [error |-> f.error, result |-> NoResult]
            ELSE Outcome(f, scale) : f \in FinalFits(a.cut_dut, a.cut_ref, w.start, w.end)}

\* ------------------------------------------------- loadcell_calibration.py
\* most samples a channel delivers while taring / while recording the curve
MaxTare == 16
MaxRec == 4
\* readings of the unloaded bridge during tare; loadcell_ref_scale values tried
\* (with scale 90 the readings 0, 1, 2 are loads of 0, 90 and 180 kg)
TareVals == {0}
AcqRefScales == {90}

tare_num_vals == 15
load_minimal == 2
test_load == 180
accel_limit == 3276
duty_push == 9830
duty_hold == 5242
duty_reverse == 8191

\* a command on the serial line: <<method, accel, value>> (accel is 0 for the
\* methods that take none)
Command(cmd, accel, value) == <<cmd, accel, value>>

\* statistics.fmean of a non-empty list
fmean(l) == Rat(SumSeq(l), Len(l))

\* convert_ref(value) = (value - tare_ref) * loadcell_ref_scale
convert_ref(value, tare, scale) == Rat((value * tare.den - tare.num) * scale, tare.den)

\* get_ref_load(): the latest REF reading, in kg
get_ref_load(values, tare, scale) == convert_ref(values[Len(values)], tare, scale)

RatLess(r, k) == r.num < k * r.den
RatGreater(r, k) == r.num > k * r.den

\* the three wait loops go on while ...
below_minimal(load) == RatLess(load, load_minimal)
below_test_load_mut(load) == RatGreater(load, test_load)
below_test_load(load) == RatLess(load, test_load)
above_minimal(load) == RatGreater(load, load_minimal)

\* ---------------------------------------------------------------- the state
VARIABLES
  pc,           \* where parse_calibration_curve stands: "call", "interpolated",
                \* "aligned", "windowed", "fitted", "returned", "raised"
  values_ref,   \* its arguments
  values_dut,
  scale_ref,
  interp_ref,   \* [den, vals]
  interp_dut,
  candidates,   \* the two (dut, ref) tuples handed to min()
  resids,       \* their keys: line_fit_residual of each
  chosen,       \* 1: DUT first, 2: REF first
  cut_dut,
  cut_ref,
  start,        \* 0-based, as in the code
  end,
  fit,          \* the final fit: the samples it was given, slope, resid, len(fit_coef)
  result,       \* the returned (scale_dut, resid[0])
  error,        \* the exception that left the function
  apc,          \* where the acquisition script stands
  handler,      \* [ref, dut]: is save_bridge_value the channel's change handler
  loadcell_values,      \* [ref, dut]: the lists the handler appends to
  loadcell_ref_scale,
  tare_ref,
  tare_dut,
  cur_load,
  motor_log,    \* the commands sent to the motor controller, in order
  parsed,       \* [ref, dut]: the arrays parse_calibration_curve made of its arguments
  outcome,      \* what it returned
  saved,        \* [ref, dut]: what np.savetxt wrote
  aerror        \* the exception that ended the script

pvars == <<pc, values_ref, values_dut, scale_ref, interp_ref, interp_dut, candidates,
           resids, chosen, cut_dut, cut_ref, start, end, fit, result, error>>

avars == <<apc, handler, loadcell_values, loadcell_ref_scale, tare_ref, tare_dut,
           cur_load, motor_log, parsed, outcome, saved, aerror>>

vars == <<pvars, avars>>

SeqsUpTo(S, n) == UNION {[1 .. k -> S] : k \in 0 .. n}

NoLists == [dut |-> <<>>, ref |-> <<>>]

PipelineBlank ==
  /\ interp_ref = NoSeries /\ interp_dut = NoSeries
  /\ candidates = <<>> /\ resids = <<>> /\ chosen = 0
  /\ cut_dut = NoSeries /\ cut_ref = NoSeries
  /\ start = -1 /\ end = -1
  /\ fit = NoFit /\ result = NoResult /\ error = NoError

AcquisitionBlank ==
  /\ handler = [dut |-> FALSE, ref |-> FALSE]
  /\ loadcell_values = NoLists
  /\ tare_ref = Rat(0, 1) /\ tare_dut = Rat(0, 1) /\ cur_load = Rat(0, 1)
  /\ motor_log = <<>>
  /\ parsed = NoLists /\ saved = NoLists
  /\ outcome = NoResult /\ aerror = NoError

\* a call of parse_calibration_curve on given series
Init ==
  /\ pc = "call"
  /\ values_ref \in SeqsUpTo(RefVals, MaxLen)
  /\ values_dut \in SeqsUpTo(DutVals, MaxLen)
  /\ scale_ref \in ScaleRefs
  /\ PipelineBlank
  /\ apc = "idle" /\ loadcell_ref_scale = 1
  /\ AcquisitionBlank

Raise(e) == pc' = "raised" /\ error' = e

\* lines 74-75
Interpolate ==
  /\ pc = "call"
  /\ LET i == InterpolateBoth(values_ref, values_dut)
     IN  IF i.error # NoError
           THEN Raise(i.error) /\ UNCHANGED <<interp_ref, interp_dut>>
         ELSE /\ interp_ref' = i.ref
              /\ interp_dut' = i.dut
              /\ pc' = "interpolated"
              /\ UNCHANGED error
  /\ UNCHANGED <<values_ref, values_dut, scale_ref, candidates, resids, chosen,
                 cut_dut, cut_ref, start, end, fit, result>>
  /\ UNCHANGED avars

\* lines 79-87
Align ==
  /\ pc = "interpolated"
  /\ LET a == AlignPhase(interp_ref, interp_dut)
     IN  IF a.error # NoError
           THEN Raise(a.error) /\ UNCHANGED <<candidates, resids, chosen, cut_dut, cut_ref>>
         ELSE /\ candidates' = a.candidates
              /\ resids' = a.resids
              /\ chosen' = a.chosen
              /\ cut_dut' = a.cut_dut
              /\ cut_ref' = a.cut_ref
              /\ pc' = "aligned"
              /\ UNCHANGED error
  /\ UNCHANGED <<values_ref, values_dut, scale_ref, interp_ref, interp_dut,
                 start, end, fit, result>>
  /\ UNCHANGED avars

\* lines 106-116
SelectWindow ==
  /\ pc = "aligned"
  /\ LET w == LoadWindow(cut_ref)
     IN  IF w.error # NoError
           THEN Raise(w.error) /\ UNCHANGED <<start, end>>
         ELSE /\ start' = w.start
              /\ end' = w.end
              /\ pc' = "windowed"
              /\ UNCHANGED error
  /\ UNCHANGED <<values_ref, values_dut, scale_ref, interp_ref, interp_dut, candidates,
                 resids, chosen, cut_dut, cut_ref, fit, result>>
  /\ UNCHANGED avars

\* lines 118-128
FitLine ==
  /\ pc = "windowed"
  /\ \E f \in FinalFits(cut_dut, cut_ref, start, end) :
       IF f.error # NoError
         THEN Raise(f.error) /\ UNCHANGED fit
       ELSE fit' = f /\ pc' = "fitted" /\ UNCHANGED error
  /\ UNCHANGED <<values_ref, values_dut, scale_ref, interp_ref, interp_dut, candidates,
                 resids, chosen, cut_dut, cut_ref, start, end, result>>
  /\ UNCHANGED avars

\* lines 130-152
Resolve ==
  /\ pc = "fitted"
  /\ LET o == Outcome(fit, scale_ref)
     IN  IF o.error # NoError
           THEN Raise(o.error) /\ UNCHANGED result
         ELSE result' = o.result /\ pc' = "returned" /\ UNCHANGED error
  /\ UNCHANGED <<values_ref, values_dut, scale_ref, interp_ref, interp_dut, candidates,
                 resids, chosen, cut_dut, cut_ref, start, end, fit>>
  /\ UNCHANGED avars

Next == Interpolate \/ Align \/ SelectWindow \/ FitLine \/ Resolve

Spec == Init /\ [][Next]_vars

\* ------------------------------------ the acquisition script as a state machine
\* a run of loadcell_calibration.py from line 96 on: the main thread and the two
\* channels' change events, which the Phidget library delivers on its own thread
InitAcq ==
  /\ pc = "idle"
  /\ values_ref = <<>> /\ values_dut = <<>> /\ scale_ref = 1
  /\ PipelineBlank
  /\ apc = "tare_set_ref"
  /\ loadcell_ref_scale \in AcqRefScales
  /\ AcquisitionBlank

TarePhase == apc \in {"tare_set_ref", "tare_set_dut", "tare_wait", "tare_unset_ref",
                      "tare_unset_dut", "tare_mean"}

Goto(l) == apc' = l

\* save_bridge_value(vri, value), lines 98-99, for a REF event
OnRefChange ==
  /\ handler.ref
  /\ Len(loadcell_values.ref) < (IF TarePhase THEN MaxTare ELSE MaxRec)
  /\ \E value \in (IF TarePhase THEN TareVals ELSE RefVals) :
       loadcell_values' = [loadcell_values EXCEPT !.ref = Append(@, value)]
  /\ UNCHANGED <<apc, handler, loadcell_ref_scale, tare_ref, tare_dut, cur_load,
                 motor_log, parsed, outcome, saved, aerror>>
  /\ UNCHANGED pvars

\* save_bridge_value(vri, value), lines 98-99, for a DUT event
OnDutChange ==
  /\ handler.dut
  /\ Len(loadcell_values.dut) < (IF TarePhase THEN MaxTare ELSE MaxRec)
  /\ \E value \in (IF TarePhase THEN TareVals ELSE DutVals) :
       loadcell_values' = [loadcell_values EXCEPT !.dut = Append(@, value)]
  /\ UNCHANGED <<apc, handler, loadcell_ref_scale, tare_ref, tare_dut, cur_load,
                 motor_log, parsed, outcome, saved, aerror>>
  /\ UNCHANGED pvars

\* line 101
TareSetRef ==
  /\ apc = "tare_set_ref"
  /\ handler' = [handler EXCEPT !.ref = TRUE]
  /\ Goto("tare_set_dut")
  /\ UNCHANGED <<loadcell_values, loadcell_ref_scale, tare_ref, tare_dut, cur_load,
                 motor_log, parsed, outcome, saved, aerror>>
  /\ UNCHANGED pvars

\* line 102
TareSetDut ==
  /\ apc = "tare_set_dut"
  /\ handler' = [handler EXCEPT !.dut = TRUE]
  /\ Goto("tare_wait")
  /\ UNCHANGED <<loadcell_values, loadcell_ref_scale, tare_ref, tare_dut, cur_load,
                 motor_log, parsed, outcome, saved, aerror>>
  /\ UNCHANGED pvars

\* lines 107-110: the loop ends once the REF list holds tare_num_vals readings
TareWait ==
  /\ apc = "tare_wait"
  /\ ~(Len(loadcell_values.ref) < tare_num_vals)
  /\ Goto("tare_unset_ref")
  /\ UNCHANGED <<handler, loadcell_values, loadcell_ref_scale, tare_ref, tare_dut,
                 cur_load, motor_log, parsed, outcome, saved, aerror>>
  /\ UNCHANGED pvars

\* line 112
TareUnsetRef ==
  /\ apc = "tare_unset_ref"
  /\ handler' = [handler EXCEPT !.ref = FALSE]
  /\ Goto("tare_unset_dut")
  /\ UNCHANGED <<loadcell_values, loadcell_ref_scale, tare_ref, tare_dut, cur_load,
                 motor_log, parsed, outcome, saved, aerror>>
  /\ UNCHANGED pvars

\* line 113
TareUnsetDut ==
  /\ apc = "tare_unset_dut"
  /\ handler' = [handler EXCEPT !.dut = FALSE]
  /\ Goto("tare_mean")
  /\ UNCHANGED <<loadcell_values, loadcell_ref_scale, tare_ref, tare_dut, cur_load,
                 motor_log, parsed, outcome, saved, aerror>>
  /\ UNCHANGED pvars

\* lines 115-116: statistics.fmean raises StatisticsError on an empty list
TareMean ==
  /\ apc = "tare_mean"
  /\ IF loadcell_values.ref = <<>> \/ loadcell_values.dut = <<>>
       THEN /\ Goto("crashed")
            /\ aerror' = Raised("StatisticsError", "fmean")
            /\ UNCHANGED <<tare_ref, tare_dut>>
       ELSE /\ tare_ref' = fmean(loadcell_values.ref)
            /\ tare_dut' = fmean(loadcell_values.dut)
            /\ Goto("rec_reset")
            /\ UNCHANGED aerror
  /\ UNCHANGED <<handler, loadcell_values, loadcell_ref_scale, cur_load, motor_log,
                 parsed, outcome, saved>>
  /\ UNCHANGED pvars

\* line 157
RecReset ==
  /\ apc = "rec_reset"
  /\ loadcell_values' = NoLists
  /\ Goto("rec_set_ref")
  /\ UNCHANGED <<handler, loadcell_ref_scale, tare_ref, tare_dut, cur_load, motor_log,
                 parsed, outcome, saved, aerror>>
  /\ UNCHANGED pvars

\* line 160
RecSetRef ==
  /\ apc = "rec_set_ref"
  /\ handler' = [handler EXCEPT !.ref = TRUE]
  /\ Goto("rec_set_dut")
  /\ UNCHANGED <<loadcell_values, loadcell_ref_scale, tare_ref, tare_dut, cur_load,
                 motor_log, parsed, outcome, saved, aerror>>
  /\ UNCHANGED pvars

\* line 161
RecSetDut ==
  /\ apc = "rec_set_dut"
  /\ handler' = [handler EXCEPT !.dut = TRUE]
  /\ Goto("rec_wait")
  /\ UNCHANGED <<loadcell_values, loadcell_ref_scale, tare_ref, tare_dut, cur_load,
                 motor_log, parsed, outcome, saved, aerror>>
  /\ UNCHANGED pvars

\* lines 164-165
RecWait ==
  /\ apc = "rec_wait"
  /\ ~(Len(loadcell_values.ref) = 0)
  /\ Goto("push_min_start")
  /\ UNCHANGED <<handler, loadcell_values, loadcell_ref_scale, tare_ref, tare_dut,
                 cur_load, motor_log, parsed, outcome, saved, aerror>>
  /\ UNCHANGED pvars

\* a motor command and nothing else
Motor(from, c, to) ==
  /\ apc = from
  /\ motor_log' = Append(motor_log, c)
  /\ Goto(to)
  /\ UNCHANGED <<handler, loadcell_values, loadcell_ref_scale, tare_ref, tare_dut,
                 cur_load, parsed, outcome, saved, aerror>>
  /\ UNCHANGED pvars

\* the value get_ref_load() returns now
NewLoad == get_ref_load(loadcell_values.ref, tare_ref, loadcell_ref_scale)

\* one test of a loop "while (cur_load := get_ref_load()) ...", or a plain read
ReadLoad(from, goon, to) ==
  /\ apc = from
  /\ cur_load' = NewLoad
  /\ apc' = IF goon THEN from ELSE to
  /\ UNCHANGED <<handler, loadcell_values, loadcell_ref_scale, tare_ref, tare_dut,
                 motor_log, parsed, outcome, saved, aerror>>
  /\ UNCHANGED pvars

\* line 173
PushMinStart == Motor("push_min_start", Command("ForwardM1", 0, 40), "push_min_loop")

\* lines 175-178
PushMinLoop == ReadLoad("push_min_loop", below_minimal(NewLoad), "push_min_stop")

\* line 182
PushMinStop == Motor("push_min_stop", Command("ForwardM1", 0, 0), "push_test_start")

\* line 195
PushTestStart ==
  Motor("push_test_start", Command("DutyAccelM1", accel_limit, duty_push), "push_test_loop")

\* lines 197-200
PushTestLoop == ReadLoad("push_test_loop", below_test_load(NewLoad), "hold")

\* line 207
Hold == Motor("hold", Command("DutyAccelM1", accel_limit, duty_hold), "hold_read")

\* lines 209-211: cur_load = get_ref_load() after the dwell
HoldRead == ReadLoad("hold_read", FALSE, "reverse_start")

\* line 215
ReverseStart ==
  Motor("reverse_start", Command("DutyAccelM1", accel_limit, -duty_reverse), "reverse_loop")

\* lines 218-221
ReverseLoop == ReadLoad("reverse_loop", above_minimal(NewLoad), "back_fast")

\* line 229
BackFast == Motor("back_fast", Command("BackwardM1", 0, 127), "back_stop")

\* line 231
BackStop == Motor("back_stop", Command("BackwardM1", 0, 0), "return")

\* line 235 and lines 262-269: the caller gets the two list objects themselves;
\* the change handlers stay set and the channels stay open
Return ==
  /\ apc = "return"
  /\ Goto("parse_copy_ref")
  /\ UNCHANGED <<handler, loadcell_values, loadcell_ref_scale, tare_ref, tare_dut,
                 cur_load, motor_log, parsed, outcome, saved, aerror>>
  /\ UNCHANGED pvars

\* line 58, entered from lines 271-273: values_ref = np.array(values_ref) copies the
\* REF list as it is now; the change handlers are still set
ParseCopyRef ==
  /\ apc = "parse_copy_ref"
  /\ parsed' = [parsed EXCEPT !.ref = loadcell_values.ref]
  /\ Goto("parse_copy_dut")
  /\ UNCHANGED <<handler, loadcell_values, loadcell_ref_scale, tare_ref, tare_dut,
                 cur_load, motor_log, outcome, saved, aerror>>
  /\ UNCHANGED pvars

\* line 59: values_dut = np.array(values_dut) copies the DUT list as it is now
ParseCopyDut ==
  /\ apc = "parse_copy_dut"
  /\ parsed' = [parsed EXCEPT !.dut = loadcell_values.dut]
  /\ Goto("parse")
  /\ UNCHANGED <<handler, loadcell_values, loadcell_ref_scale, tare_ref, tare_dut,
                 cur_load, motor_log, outcome, saved, aerror>>
  /\ UNCHANGED pvars

\* lines 74-152: the rest of parse_calibration_curve works on the two copies
Parse ==
  /\ apc = "parse"
  /\ \E o \in parse_calibration_curve(parsed.ref, parsed.dut, loadcell_ref_scale) :
       IF o.error # NoError
         THEN Goto("crashed") /\ aerror' = o.error /\ UNCHANGED outcome
       ELSE Goto("save_ref") /\ outcome' = o.result /\ UNCHANGED aerror
  /\ UNCHANGED <<handler, loadcell_values, loadcell_ref_scale, tare_ref, tare_dut,
                 cur_load, motor_log, parsed, saved>>
  /\ UNCHANGED pvars

\* line 282
SaveRef ==
  /\ apc = "save_ref"
  /\ saved' = [saved EXCEPT !.ref = loadcell_values.ref]
  /\ Goto("save_dut")
  /\ UNCHANGED <<handler, loadcell_values, loadcell_ref_scale, tare_ref, tare_dut,
                 cur_load, motor_log, parsed, outcome, aerror>>
  /\ UNCHANGED pvars

\* line 283
SaveDut ==
  /\ apc = "save_dut"
  /\ saved' = [saved EXCEPT !.dut = loadcell_values.dut]
  /\ Goto("done")
  /\ UNCHANGED <<handler, loadcell_values, loadcell_ref_scale, tare_ref, tare_dut,
                 cur_load, motor_log, parsed, outcome, aerror>>
  /\ UNCHANGED pvars

NextAcq ==
  \/ OnRefChange \/ OnDutChange
  \/ TareSetRef \/ TareSetDut \/ TareWait \/ TareUnsetRef \/ TareUnsetDut \/ TareMean
  \/ RecReset \/ RecSetRef \/ RecSetDut \/ RecWait
  \/ PushMinStart \/ PushMinLoop \/ PushMinStop
  \/ PushTestStart \/ PushTestLoop
  \/ Hold \/ HoldRead
  \/ ReverseStart \/ ReverseLoop
  \/ BackFast \/ BackStop \/ Return
  \/ ParseCopyRef \/ ParseCopyDut \/ Parse \/ SaveRef \/ SaveDut

SpecAcq == InitAcq /\ [][NextAcq]_vars

\* ------------------------------------------------------------------ claims
\* helpers of the statements below, written from the claims' words
Aligned == pc \in {"aligned", "windowed", "fitted", "returned"}
              \/ (pc = "raised" /\ candidates # <<>>)
Windowed == start >= 0
Fitted == pc \in {"fitted", "returned"} \/ (pc = "raised" /\ error.at \in {"fit_coef", "resid"})
Finished == pc \in {"returned", "raised"}
MinInterpLen == Min2(Len(interp_ref.vals), Len(interp_dut.vals))
AllZero(s) == \A i \in 1 .. Len(s) : s[i] = 0
NonConstant(s) == \E i, j \in 1 .. Len(s) : s[i] # s[j]
\* sample i (1-based) of the aligned REF series exceeds ref_min + 0.1 * (ref_max - ref_min)
ExceedsThreshold(i) ==
  10 * cut_ref.vals[i] >
    (MaxSeq(cut_ref.vals) - MinSeq(cut_ref.vals)) + 10 * MinSeq(cut_ref.vals)
SameResid(r1, r2) == ~ResidLess(r1, r2) /\ ~ResidLess(r2, r1)

\* C1: whenever phase alignment returns, both candidates and the returned pair
\* (cut_ref, cut_dut) have length min(p, q) - 1, p and q the resampled lengths.
Thm_C1_AlignedLength ==
  Aligned =>
    /\ \A i \in 1 .. 2 : /\ Len(candidates[i].dut.vals) = MinInterpLen - 1
                         /\ Len(candidates[i].ref.vals) = MinInterpLen - 1
    /\ Len(cut_ref.vals) = MinInterpLen - 1
    /\ Len(cut_dut.vals) = MinInterpLen - 1

\* C1 happens: alignment returned for resampled series of different lengths
Wit_C1_AlignedUnequal ==
  pc = "aligned" /\ Len(interp_ref.vals) > Len(interp_dut.vals) /\ Len(cut_ref.vals) >= 4

\* C2: Candidate B (REF leads) is selected exactly when its residual is strictly
\* smaller than A's; otherwise, ties included, Candidate A (DUT leads:
\* cut_dut = dut_interp[1:m], cut_ref = ref_interp[0:m-1]) is selected.
Thm_C2_StrictlySmallerElseA ==
  Aligned =>
    /\ chosen \in {1, 2}
    /\ (chosen = 2) <=> ResidLess(resids[2], resids[1])
    /\ chosen = 1 => /\ cut_dut.vals = SubSeq(interp_dut.vals, 2, MinInterpLen)
                     /\ cut_ref.vals = SubSeq(interp_ref.vals, 1, MinInterpLen - 1)
    /\ chosen = 2 => /\ cut_dut.vals = SubSeq(interp_dut.vals, 1, MinInterpLen - 1)
                     /\ cut_ref.vals = SubSeq(interp_ref.vals, 2, MinInterpLen)

\* C2 happens: two different candidates with equal residuals, and A was taken
Wit_C2_TieTakesA ==
  /\ pc = "aligned"
  /\ SameResid(resids[1], resids[2])
  /\ candidates[1] # candidates[2]
  /\ chosen = 1

\* C3, as claimed: start and end are the first and the last index above the
\* threshold, and the final fit is given exactly the samples start .. end, the
\* one at index end included.
Claim_C3_FitIncludesEnd ==
  Fitted =>
    /\ ExceedsThreshold(start + 1) /\ ExceedsThreshold(end + 1)
    /\ \A i \in 1 .. Len(cut_ref.vals) : ExceedsThreshold(i) => start + 1 <= i /\ i <= end + 1
    /\ fit.xs = SubSeq(cut_dut.vals, start + 1, end + 1)
    /\ fit.ys = SubSeq(cut_ref.vals, start + 1, end + 1)

\* C4, as claimed: a REF series of all zeros ends in the empty-window failure,
\* whatever the DUT series holds (both series long enough to interpolate).
Claim_C4_AlwaysEmptyWindow ==
  (Finished /\ AllZero(values_ref) /\ Len(values_ref) >= 2 /\ Len(values_dut) >= 2) =>
    (pc = "raised" /\ error.at = "select_window")

\* C4, amended: a REF series of all zeros never yields a result; the call raises.
\* The exception comes from the empty window selection whenever phase alignment
\* returned, and from interpolation or line_fit_residual otherwise.  In general,
\* once alignment returned with no REF sample above the threshold, the call
\* raises IndexError from the window selection.
Thm_C4_FlatRefRaises ==
  /\ AllZero(values_ref) =>
       /\ pc \notin {"windowed", "fitted", "returned"}
       /\ pc = "raised" =>
            /\ candidates # <<>> => error = Raised("IndexError", "select_window")
            /\ candidates = <<>> => error.at \in {"interpolate_2x", "line_fit_residual"}
  /\ (Aligned /\ pc # "aligned" /\ \A i \in 1 .. Len(cut_ref.vals) : ~ExceedsThreshold(i)) =>
       (pc = "raised" /\ error = Raised("IndexError", "select_window"))

\* C4 happens: an all-zero REF series with a varying DUT series got through
\* alignment and was stopped by the window selection
Wit_C4_FlatRefEmptyWindow ==
  /\ pc = "raised" /\ error.at = "select_window"
  /\ AllZero(values_ref) /\ Len(values_ref) >= 3
  /\ NonConstant(values_dut)

\* C5, as claimed: the final fit returns whenever the active window start .. end
\* holds 2 or more samples with non-constant DUT values, and fails only when the
\* window holds fewer than 2 samples.
Claim_C5_TwoSamplesSuffice ==
  (Finished /\ Windowed) =>
    /\ (end - start + 1 >= 2 /\ NonConstant(SubSeq(cut_dut.vals, start + 1, end + 1)))
         => pc = "returned"
    /\ end - start + 1 < 2 => pc = "raised"

\* C6: for raw series of length n >= 2 the resampled series has exactly 2n - 1
\* values (interpolate_2x does not fail on them).
Thm_C6_ResampledLength ==
  (pc \notin {"call", "idle"} /\ Len(values_ref) >= 2 /\ Len(values_dut) >= 2) =>
    /\ error.at # "interpolate_2x"
    /\ Len(interp_ref.vals) = 2 * Len(values_ref) - 1
    /\ Len(interp_dut.vals) = 2 * Len(values_dut) - 1

\* C6 happens: two series of different lengths were resampled
Wit_C6_Resampled ==
  pc = "interpolated" /\ Len(values_ref) = 4 /\ Len(values_dut) = 2
    /\ Len(interp_ref.vals) = 7

\* C7: on success the function returns scale_dut = slope * scale_ref, the slope
\* being the least-squares slope of REF against DUT over the fitted samples, and
\* the residual of that same fit, unchanged.
Thm_C7_ScaleIsSlopeTimesRef ==
  pc = "returned" =>
    LET n == Len(fit.xs)
        A == n * DotSeq(fit.xs, fit.xs) - SumSeq(fit.xs) * SumSeq(fit.xs)
        B == n * DotSeq(fit.xs, fit.ys) - SumSeq(fit.xs) * SumSeq(fit.ys)
        sd == result.scale_dut
    IN  /\ result.residual = fit.resid /\ Len(fit.resid) = 1
        \* slope = (B / A) * (cut_dut.den / cut_ref.den): the normal equation
        /\ (fit.slope.num < 0) = (B < 0)
        /\ BigMul(BigOf(Abs(fit.slope.num)), BigOf(A * cut_ref.den))
             = BigMul(BigOf(fit.slope.den), BigOf(Abs(B) * cut_dut.den))
        \* scale_dut = slope * scale_ref
        /\ sd.neg = (fit.slope.num < 0)
        /\ BigMul(sd.num, BigOf(fit.slope.den))
             = BigMul(BigMul(BigOf(Abs(fit.slope.num)), BigOf(scale_ref)), BigOf(sd.den))

\* C7 happens: a fitted slope of 1.5 with scale_ref = 100000 returned 150000
Wit_C7_Slope15 ==
  /\ pc = "returned"
  /\ fit.slope = [num |-> 3, den |-> 2]
  /\ scale_ref = 100000
  /\ result.scale_dut = [num |-> BigOf(150000), den |-> 1, neg |-> FALSE]

\* C8, as claimed: after generate_calibration_curve returned its two lists no
\* callback appends to them, so what np.savetxt writes is what
\* parse_calibration_curve was given.
Claim_C8_SavedIsParsed ==
  apc = "done" => saved = parsed

\* C9: the motor commands are sent in the documented order, a phase starts only
\* after the previous phase's load was observed (>= 2 kg before the first stop,
\* >= 180 kg before the hold, <= 2 kg before the fast pull back), and a run that
\* returns has sent all seven commands, the stop last.
DocumentedCommands ==
  << <<"ForwardM1", 0, 40>>,
     <<"ForwardM1", 0, 0>>,
     <<"DutyAccelM1", 3276, 9830>>,
     <<"DutyAccelM1", 3276, 5242>>,
     <<"DutyAccelM1", 3276, -8191>>,
     <<"BackwardM1", 0, 127>>,
     <<"BackwardM1", 0, 0>> >>

CommandsSentAt(l) ==
  CASE l \in {"push_min_loop", "push_min_stop"} -> 1
    [] l = "push_test_start" -> 2
    [] l \in {"push_test_loop", "hold"} -> 3
    [] l \in {"hold_read", "reverse_start"} -> 4
    [] l \in {"reverse_loop", "back_fast"} -> 5
    [] l = "back_stop" -> 6
    [] l \in {"return", "parse_copy_ref", "parse_copy_dut", "parse", "save_ref", "save_dut",
              "done"} -> 7
    [] OTHER -> 0

Thm_C9_MotorOrder ==
  /\ Len(motor_log) <= 7
  /\ motor_log = SubSeq(DocumentedCommands, 1, Len(motor_log))
  /\ apc # "crashed" => Len(motor_log) = CommandsSentAt(apc)
  /\ apc = "crashed" => Len(motor_log) \in {0, 7}
  /\ apc = "push_min_stop" => cur_load.num >= 2 * cur_load.den
  /\ apc = "hold" => cur_load.num >= 180 * cur_load.den
  /\ apc = "back_fast" => cur_load.num <= 2 * cur_load.den

\* C9 happens: a run went through all phases and returned
Wit_C9_Returned ==
  apc = "parse" /\ motor_log = DocumentedCommands /\ Len(loadcell_values.ref) >= 2

\* C10, as claimed: when the tare wait loop ends the DUT list holds at least one
\* reading, so both tare means are taken over non-empty lists.
Claim_C10_DutHasTareSample ==
  /\ apc = "tare_unset_ref" => Len(loadcell_values.dut) >= 1
  /\ apc = "tare_mean" => (loadcell_values.ref # <<>> /\ loadcell_values.dut # <<>>)
  /\ aerror.exc # "StatisticsError"

====
